---- MODULE Spec2Model ----
(***************************************************************************)
(* A state-machine model of src/generate_graphs.py: a linear script that   *)
(* converts a fixed profiling table, builds three matplotlib figures,      *)
(* saves each to docs/, prints confirmations, shows the open figures and   *)
(* prints a summary.                                                       *)
(*                                                                         *)
(* Python floats are IEEE-754 binary64.  A float is modelled exactly, as a *)
(* record [m, e] standing for m * 2^e, where m is the 53-bit significand.  *)
(* TLC integers are 32 bits wide, so m is kept as a sequence of limbs      *)
(* (digits in base 2^10, most significant first, no leading zero; zero is  *)
(* the empty sequence).  All floats of the script are positive and normal. *)
(***************************************************************************)
EXTENDS Integers, Sequences, FiniteSets, TLC

Radix == 2^10

BitLenSmall(x) == CHOOSE n \in 0..31 : x < 2^n /\ (n = 0 \/ x >= 2^(n - 1))

LimbBits == BitLenSmall(Radix - 1)

RECURSIVE Limbs(_)
Limbs(n) == IF n = 0 THEN <<>> ELSE Append(Limbs(n \div Radix), n % Radix)

RECURSIVE ToNat(_)
ToNat(a) ==
    IF a = <<>> THEN 0
    ELSE Radix * ToNat(SubSeq(a, 1, Len(a) - 1)) + a[Len(a)]

RECURSIVE Strip(_)
Strip(a) ==
    IF a = <<>> THEN <<>>
    ELSE IF a[1] = 0 THEN Strip(Tail(a)) ELSE a

Zeros(n) == [i \in 1..n |-> 0]

BitLen(a) == IF a = <<>> THEN 0 ELSE LimbBits * (Len(a) - 1) + BitLenSmall(a[1])

\* a * k for an int k <= 2^20: schoolbook multiplication from the last limb up.
RECURSIVE MulAcc(_, _, _, _, _)
MulAcc(a, k, i, carry, acc) ==
    IF i = 0 THEN Limbs(carry) \o acc
    ELSE LET v == a[i] * k + carry
         IN  MulAcc(a, k, i - 1, v \div Radix, <<v % Radix>> \o acc)

MulSmall(a, k) == Strip(MulAcc(a, k, Len(a), 0, <<>>))

\* a divided by an int d <= 2^20: long division from the first limb down.
RECURSIVE DivAcc(_, _, _, _, _)
DivAcc(a, d, i, rem, q) ==
    IF i > Len(a) THEN [q |-> Strip(q), r |-> rem]
    ELSE LET v == Radix * rem + a[i]
         IN  DivAcc(a, d, i + 1, v % d, Append(q, v \div d))

DivSmall(a, d) == DivAcc(a, d, 1, 0, <<>>)

\* a >= b
Geq(a, b) ==
    \/ Len(a) > Len(b)
    \/ /\ Len(a) = Len(b)
       /\ \/ a = b
          \/ \E i \in 1..Len(a) : a[i] > b[i] /\ \A j \in 1..(i - 1) : a[j] = b[j]

\* a - b for a >= b: from the last limb up, with a borrow.
RECURSIVE SubAcc(_, _, _, _, _)
SubAcc(a, b, i, borrow, acc) ==
    IF i = 0 THEN acc
    ELSE LET j  == i - (Len(a) - Len(b))
             bi == IF j >= 1 THEN b[j] ELSE 0
             v  == a[i] - bi - borrow
         IN  IF v >= 0 THEN SubAcc(a, b, i - 1, 0, <<v>> \o acc)
                       ELSE SubAcc(a, b, i - 1, 1, <<v + Radix>> \o acc)

Sub(a, b) == Strip(SubAcc(a, b, Len(a), 0, <<>>))

\* The largest digit d < Radix with d * b <= r, found bit by bit.
RECURSIVE DigitAcc(_, _, _, _)
DigitAcc(r, b, j, digit) ==
    IF j < 0 THEN digit
    ELSE IF Geq(r, MulSmall(b, digit + 2^j)) THEN DigitAcc(r, b, j - 1, digit + 2^j)
    ELSE DigitAcc(r, b, j - 1, digit)

\* a divided by b, both of any size: long division, one limb of quotient a step.
RECURSIVE DivBigAcc(_, _, _, _, _)
DivBigAcc(a, b, i, rem, q) ==
    IF i > Len(a) THEN [q |-> Strip(q), exact |-> rem = <<>>]
    ELSE LET r == Strip(Append(rem, a[i]))
             d == DigitAcc(r, b, LimbBits - 1, 0)
         IN  DivBigAcc(a, b, i + 1, Sub(r, MulSmall(b, d)), Append(q, d))

DivBig(a, b) == DivBigAcc(a, b, 1, <<>>, <<>>)

RECURSIVE Incr(_)
Incr(a) ==
    IF a = <<>> THEN <<1>>
    ELSE IF a[Len(a)] < Radix - 1
         THEN SubSeq(a, 1, Len(a) - 1) \o <<a[Len(a)] + 1>>
    ELSE Incr(SubSeq(a, 1, Len(a) - 1)) \o <<0>>

\* a * 2^s
ShiftLeft(a, s) == MulSmall(a, 2^(s % LimbBits)) \o Zeros(s \div LimbBits)

\* floor(a / 2^s), and whether nothing was cut off
ShiftRight(a, s) ==
    LET n  == Len(a) - (s \div LimbBits)
        d  == DivSmall(SubSeq(a, 1, n), 2^(s % LimbBits))
    IN  [q |-> d.q, exact |-> d.r = 0 /\ \A i \in (n + 1)..Len(a) : a[i] = 0]

(***************************************************************************)
(* Round-to-nearest, ties-to-even, of a (followed by a non-zero tail       *)
(* exactly when inexact) to its p leading bits, 0 <= p.  The result stands *)
(* for m * 2^e in units of the last bit of a.                              *)
(***************************************************************************)
RoundNearestEven(a, inexact, p) ==
    LET n == BitLen(a) IN
    IF n <= p THEN [m |-> ShiftLeft(a, p - n), e |-> n - p]
    ELSE LET t    == ShiftRight(a, n - p - 1)
             h    == DivSmall(t.q, 2)
             odd  == h.q # <<>> /\ h.q[Len(h.q)] % 2 = 1
             up   == h.r = 1 /\ (inexact \/ ~t.exact \/ odd)
             m    == IF up THEN Incr(h.q) ELSE h.q
         IN  IF BitLen(m) > p THEN [m |-> DivSmall(m, 2).q, e |-> n - p + 1]
                              ELSE [m |-> m, e |-> n - p]

\* binary64: 53 significant bits.
Precision == 53

\* Extra binary digits a quotient carries before it is rounded.
GuardBits == 2 * Precision

\* The float a decimal literal denotes: digits * 10^-places, correctly rounded.
Literal(digits, places) ==
    LET d == DivSmall(ShiftLeft(Limbs(digits), GuardBits), 10^places)
        r == RoundNearestEven(d.q, d.r # 0, Precision)
    IN  [m |-> r.m, e |-> r.e - GuardBits]

\* float * int: the int converts exactly, the exact product is rounded once.
MulInt(x, k) ==
    LET r == RoundNearestEven(MulSmall(x.m, k), FALSE, Precision)
    IN  [m |-> r.m, e |-> x.e + r.e]

\* 1.0 / x, correctly rounded.
Reciprocal(x) ==
    LET d == DivBig(ShiftLeft(<<1>>, GuardBits), x.m)
        r == RoundNearestEven(d.q, ~d.exact, Precision)
    IN  [m |-> r.m, e |-> r.e - GuardBits - x.e]

\* format(x, '.<places>f') read as an integer count of 10^-places units:
\* the exact binary value rounded to nearest, ties to even.
FormatFixed(x, places) ==
    LET a == MulSmall(x.m, 10^places)
        p == BitLen(a) + x.e
        r == RoundNearestEven(a, FALSE, p)
    IN  IF p < 0 THEN 0 ELSE ToNat(r.m) * 2^(r.e + x.e)

(***************************************************************************)
(* The program state.                                                      *)
(*   pc         position of the script (one label per block of the source) *)
(*   status     "running", or how the process ended: "ok" / "error"        *)
(*   errLine    source line of the uncaught exception, 0 when none         *)
(*   ns         the module namespace: the names bound so far, with values  *)
(*   style      the style sheets applied by plt.style.use, in order        *)
(*   figs       pyplot's registry of open figures, in creation order; the  *)
(*              last one is the current figure                             *)
(*   stdout     the lines printed, one entry per print call                *)
(*   displayed  the figures shown in windows                               *)
(* The environment.                                                        *)
(*   dirExists  whether the directory docs/ exists                         *)
(*   fs         the files under docs/: path -> [geom, mtime]               *)
(*   clock      the file system's logical time                             *)
(*   available  plt.style.available                                        *)
(*   interactive whether the plotting backend can open windows             *)
(*   t0         the clock when the current process started                 *)
(*   runs       what each earlier run of the script left behind            *)
(***************************************************************************)
VARIABLES pc, status, errLine, ns, style, figs, stdout, displayed,
          dirExists, fs, clock, available, interactive, t0, runs

vars == <<pc, status, errLine, ns, style, figs, stdout, displayed,
          dirExists, fs, clock, available, interactive, t0, runs>>

\* How many times the script is run in one environment.
MaxRuns == 2

\* The literals of the profiling table, as written: decimal digits and the
\* number of decimal places.
T_P_digits == <<3119, 4229, 8202, 9997>>
speedup_digits == <<1829, 1349, 696, 571>>
efficiency_digits == <<915, 337, 87, 36>>
T_S_digits == 571
MicroPlaces == 6
RatioPlaces == 4

Dataset ==
    [threads    |-> <<2, 4, 8, 16>>,
     T_P        |-> [i \in 1..4 |-> Literal(T_P_digits[i], MicroPlaces)],
     speedup    |-> [i \in 1..4 |-> Literal(speedup_digits[i], RatioPlaces)],
     efficiency |-> [i \in 1..4 |-> Literal(efficiency_digits[i], RatioPlaces)],
     T_S        |-> Literal(T_S_digits, MicroPlaces)]

PreferredStyle == "seaborn-v0_8-darkgrid"
DefaultStyle == "default"
OtherStyle == "ggplot"

\* OutputPath had the file names carried a time stamp.
OutputPathStamped(k) ==
    CASE k = 1 -> "docs/performance_graphs_" \o ToString(clock) \o ".png"
      [] k = 2 -> "docs/performance_graphs_individual_" \o ToString(clock) \o ".png"
      [] k = 3 -> "docs/performance_graphs_comparison_" \o ToString(clock) \o ".png"

OutputPath(k) ==
    CASE k = 1 -> "docs/performance_graphs.png"
      [] k = 2 -> "docs/performance_graphs_individual.png"
      [] k = 3 -> "docs/performance_graphs_comparison.png"

OutputPaths == {OutputPath(k) : k \in 1..3}

\* A file left in docs/ by something other than the runs modelled here.
StaleFile == [geom |-> <<>>, mtime |-> 0]

Min(a, b) == IF a <= b THEN a ELSE b

\* name = value at module level
Bind(name, value) ==
    [n \in DOMAIN ns \cup {name} |-> IF n = name THEN value ELSE ns[n]]

Bound(name) == name \in DOMAIN ns

(***************************************************************************)
(* Figures.  A figure is [size, style, axes, tight]; an axes is            *)
(* [style, artists, xticks, xticklabels].  Only what carries data is kept: *)
(* bars, lines, reference lines, fills and text labels.  Titles, axis      *)
(* labels, legends, grids and limits are left out.                         *)
(***************************************************************************)
NewFigure(w, h) == [size |-> <<w, h>>, style |-> style, axes |-> <<>>, tight |-> FALSE]

NewAxes == [style |-> style, artists |-> <<>>, xticks |-> <<>>, xticklabels |-> <<>>]

Bar(xs, ys) == [kind |-> "bar", x |-> xs, y |-> ys]
Plot(xs, ys, fmt) == [kind |-> "plot", x |-> xs, y |-> ys, fmt |-> fmt]
HLine(y, ls) == [kind |-> "axhline", y |-> y, ls |-> ls]
Fill(xs, ys) == [kind |-> "fill_between", x |-> xs, y |-> ys]

\* for a, b in zip(xs, ys): ax.text(a, b, f'{b:.<places>f}<suffix>')
ValueLabels(xs, ys, places, suffix) ==
    [i \in 1..Min(Len(xs), Len(ys)) |->
        [kind |-> "text", x |-> xs[i], y |-> ys[i],
         s |-> <<FormatFixed(ys[i], places), places, suffix>>]]

Current == Len(figs)

\* the current figure with one more axes in it
AddAxes(ax) ==
    [figs EXCEPT ![Current].axes = Append(@, ax)]

WithArtists(ax, arts, ticks, ticklabels) ==
    [ax EXCEPT !.artists = @ \o arts, !.xticks = ticks, !.xticklabels = ticklabels]

Running(label) == status = "running" /\ pc = label

Goto(label) == pc' = label /\ UNCHANGED <<status, errLine>>

EnvUnchanged == UNCHANGED <<dirExists, fs, clock, available, interactive, t0, runs>>

Init ==
    /\ pc = "convert"
    /\ status = "running"
    /\ errLine = 0
    /\ ns = Dataset
    /\ style = <<>>
    /\ figs = <<>>
    /\ stdout = <<>>
    /\ displayed = {}
    /\ clock = 0
    /\ dirExists \in BOOLEAN
    /\ \E old \in SUBSET OutputPaths :
          /\ ~dirExists => old = {}
          /\ fs = [p \in old |-> StaleFile]
    /\ available \in SUBSET {PreferredStyle, OtherStyle}
    /\ interactive \in BOOLEAN
    /\ t0 = 0
    /\ runs = <<>>

\* Milliseconds with the factor of a percentage.
MillisecondsWrongFactor(t) == MulInt(t, 100)

\* line 18: t * 1000
Milliseconds(t) == MulInt(t, 1000)

\* line 71: e * 100
Percent(e) == MulInt(e, 100)

\* lines 17-19
ConvertUnits ==
    /\ Running("convert")
    /\ ns' = [n \in DOMAIN ns \cup {"T_P_ms", "T_S_ms"} |->
                CASE n = "T_P_ms" -> [i \in 1..Len(ns.T_P) |-> Milliseconds(ns.T_P[i])]
                  [] n = "T_S_ms" -> Milliseconds(ns.T_S)
                  [] OTHER -> ns[n]]
    /\ Goto("figure1")
    /\ UNCHANGED <<style, figs, stdout, displayed>>
    /\ EnvUnchanged

\* line 22: fig = plt.figure(figsize=(16, 12))
CreateFigure1 ==
    /\ Running("figure1")
    /\ figs' = Append(figs, NewFigure(16, 12))
    /\ Goto("style")
    /\ UNCHANGED <<ns, style, stdout, displayed>>
    /\ EnvUnchanged

\* ChosenStyle without the availability test.
ChosenStyleNoFallback == PreferredStyle

\* The argument of plt.style.use on line 25.
ChosenStyle == IF PreferredStyle \in available THEN PreferredStyle ELSE DefaultStyle

\* plt.style.use(name): "default" is always known, any other name must be
\* in the library, or the call raises.
StyleKnown(name) == name = DefaultStyle \/ name \in available

\* lines 24-25
UseStyle ==
    /\ Running("style")
    /\ IF StyleKnown(ChosenStyle)
       THEN /\ style' = Append(style, ChosenStyle)
            /\ Goto("ax1")
       ELSE /\ status' = "error"
            /\ errLine' = 25
            /\ pc' = "exit"
            /\ UNCHANGED style
    /\ UNCHANGED <<ns, figs, stdout, displayed>>
    /\ EnvUnchanged

\* the tick positions and labels of both execution-time panels
TimeTicks == <<0>> \o ns.threads
TimeTickLabels == <<"Serial">> \o ns.threads

\* DrawAx1 had the tick list been made by threads.insert(0, 0).
DrawAx1InsertsTick ==
    /\ Running("ax1")
    /\ ns' = [ns EXCEPT !.threads = <<0>> \o @]
    /\ figs' = AddAxes(WithArtists(NewAxes,
                  <<Bar(<<"Serial">>, <<ns.T_S_ms>>),
                    Bar(ns.threads, ns.T_P_ms),
                    HLine(ns.T_S_ms, "--")>>
                  \o ValueLabels(ns.threads, ns.T_P_ms, 3, "ms")
                  \o ValueLabels(<<0>>, <<ns.T_S_ms>>, 3, "ms"),
                  ns'.threads, <<"Serial">> \o ns.threads))
    /\ Goto("ax2")
    /\ UNCHANGED <<style, stdout, displayed>>
    /\ EnvUnchanged

\* lines 27-43: execution time, serial against parallel
DrawAx1 ==
    /\ Running("ax1")
    /\ figs' = AddAxes(WithArtists(NewAxes,
                  <<Bar(<<"Serial">>, <<ns.T_S_ms>>),
                    Bar(ns.threads, ns.T_P_ms),
                    HLine(ns.T_S_ms, "--")>>
                  \o ValueLabels(ns.threads, ns.T_P_ms, 3, "ms")
                  \o ValueLabels(<<0>>, <<ns.T_S_ms>>, 3, "ms"),
                  TimeTicks, TimeTickLabels))
    /\ Goto("ax2")
    /\ UNCHANGED <<ns, style, stdout, displayed>>
    /\ EnvUnchanged

\* IdealSpeedup had it been range(1, len(threads) + 1).
IdealSpeedupFromIndex == [i \in 1..Len(ns.threads) |-> i]

\* line 50: ideal_speedup = threads
IdealSpeedup == ns.threads

\* lines 45-67: speedup, with the ideal line and the no-speedup line
DrawAx2 ==
    /\ Running("ax2")
    /\ ns' = Bind("ideal_speedup", IdealSpeedup)
    /\ figs' = AddAxes(WithArtists(NewAxes,
                  <<Plot(ns.threads, ns.speedup, "o-"),
                    HLine(1, "--"),
                    Plot(ns.threads, IdealSpeedup, "--")>>
                  \o ValueLabels(ns.threads, ns.speedup, 3, "")
                  \o <<[kind |-> "text", x |-> "0.5", y |-> "0.95",
                        s |-> "Speedup < 1.0 indicates\nparallel version is slower"]>>,
                  ns.threads, ns.threads))
    /\ Goto("ax3")
    /\ UNCHANGED <<style, stdout, displayed>>
    /\ EnvUnchanged

\* line 71: efficiency_percent = [e * 100 for e in efficiency]
EfficiencyPercent == [i \in 1..Len(ns.efficiency) |-> Percent(ns.efficiency[i])]

\* DrawAx3 had it gone on to the save with the fourth panel not drawn.
DrawAx3ThenSave ==
    /\ Running("ax3")
    /\ ns' = Bind("efficiency_percent", EfficiencyPercent)
    /\ figs' = AddAxes(WithArtists(NewAxes,
                  <<Plot(ns.threads, EfficiencyPercent, "s-"),
                    HLine(100, "--"),
                    Fill(ns.threads, EfficiencyPercent)>>
                  \o ValueLabels(ns.threads, EfficiencyPercent, 2, "%"),
                  ns.threads, ns.threads))
    /\ Goto("save1")
    /\ UNCHANGED <<style, stdout, displayed>>
    /\ EnvUnchanged

\* lines 69-85: efficiency in percent
DrawAx3 ==
    /\ Running("ax3")
    /\ ns' = Bind("efficiency_percent", EfficiencyPercent)
    /\ figs' = AddAxes(WithArtists(NewAxes,
                  <<Plot(ns.threads, EfficiencyPercent, "s-"),
                    HLine(100, "--"),
                    Fill(ns.threads, EfficiencyPercent)>>
                  \o ValueLabels(ns.threads, EfficiencyPercent, 2, "%"),
                  ns.threads, ns.threads))
    /\ Goto("ax4")
    /\ UNCHANGED <<style, stdout, displayed>>
    /\ EnvUnchanged

\* line 89: degradation_factor = [1.0 / s for s in speedup]
DegradationFactor == [i \in 1..Len(ns.speedup) |-> Reciprocal(ns.speedup[i])]

\* lines 87-101: how many times slower than serial
DrawAx4 ==
    /\ Running("ax4")
    /\ ns' = Bind("degradation_factor", DegradationFactor)
    /\ figs' = AddAxes(WithArtists(NewAxes,
                  <<Bar(ns.threads, DegradationFactor),
                    HLine(1, "--")>>
                  \o ValueLabels(ns.threads, DegradationFactor, 1, "x"),
                  ns.threads, ns.threads))
    /\ Goto("save1")
    /\ UNCHANGED <<style, stdout, displayed>>
    /\ EnvUnchanged

\* the source line of the k-th plt.savefig call
SaveLine(k) ==
    CASE k = 1 -> 107
      [] k = 2 -> 155
      [] k = 3 -> 186

\* plt.tight_layout(): lays out the current figure
TightLayout == [figs EXCEPT ![Current].tight = TRUE]

\* What savefig writes: the file's plotted geometry, stamped with the time.
Rendered(fig) == [geom |-> fig, mtime |-> clock + 1]

\* SaveFig had the script made the directory first (os.makedirs).
SaveFigMakedirs(label, k, next) ==
    /\ Running(label)
    /\ figs' = [figs EXCEPT ![Len(figs)].tight = TRUE]
    /\ dirExists' = TRUE
    /\ fs' = [p \in DOMAIN fs \cup {OutputPath(k)} |->
                IF p = OutputPath(k)
                THEN [geom |-> figs'[Len(figs)], mtime |-> clock + 1] ELSE fs[p]]
    /\ clock' = clock + 1
    /\ Goto(next)
    /\ UNCHANGED <<available, interactive, t0, runs>>

\* SaveFig had a failed save removed the files saved before it.
SaveFigCleanup(label, k, next) ==
    /\ Running(label)
    /\ figs' = [figs EXCEPT ![Len(figs)].tight = TRUE]
    /\ \E permitted \in BOOLEAN :
          IF dirExists /\ permitted
          THEN /\ fs' = [p \in DOMAIN fs \cup {OutputPath(k)} |->
                           IF p = OutputPath(k)
                           THEN [geom |-> figs'[Len(figs)], mtime |-> clock + 1] ELSE fs[p]]
               /\ clock' = clock + 1
               /\ Goto(next)
          ELSE /\ status' = "error"
               /\ errLine' = SaveLine(k)
               /\ pc' = "exit"
               /\ fs' = [p \in DOMAIN fs \ OutputPaths |-> fs[p]]
               /\ UNCHANGED clock
    /\ UNCHANGED <<dirExists, available, interactive, t0, runs>>

(***************************************************************************)
(* plt.tight_layout(); plt.savefig(path, dpi=300, bbox_inches='tight').    *)
(* savefig renders the current figure and opens path for writing.  The     *)
(* open fails when docs/ is absent (FileNotFoundError) or the target may   *)
(* not be written (PermissionError, the environment's choice `permitted`); *)
(* the exception is not caught, so the process ends there.  Nothing in the *)
(* script creates the directory.                                           *)
(***************************************************************************)
SaveFig(label, k, next) ==
    /\ Running(label)
    /\ figs' = TightLayout
    /\ \E permitted \in BOOLEAN :
          IF dirExists /\ permitted
          THEN /\ fs' = [p \in DOMAIN fs \cup {OutputPath(k)} |->
                           IF p = OutputPath(k) THEN Rendered(figs'[Current]) ELSE fs[p]]
               /\ clock' = clock + 1
               /\ Goto(next)
          ELSE /\ status' = "error"
               /\ errLine' = SaveLine(k)
               /\ pc' = "exit"
               /\ UNCHANGED <<fs, clock>>
    /\ UNCHANGED <<dirExists, available, interactive, t0, runs>>

\* Confirmation had every line reused the variable output_file of line 106.
ConfirmationOutputFile(what, k) == <<what, " saved to ", ns.output_file>>

\* print(f"<what> saved to <path>")
Confirmation(what, k) == <<what, " saved to ", OutputPath(k)>>

PrintLine(label, line, next) ==
    /\ Running(label)
    /\ stdout' = Append(stdout, line)
    /\ Goto(next)
    /\ UNCHANGED <<ns, style, figs, displayed>>
    /\ EnvUnchanged

\* lines 103-107
Save1 ==
    /\ SaveFig("save1", 1, "print1")
    /\ ns' = Bind("output_file", OutputPath(1))
    /\ UNCHANGED <<style, stdout, displayed>>

\* line 108
Print1 == PrintLine("print1", Confirmation("Graphs", 1), "figure2")

\* line 111: fig2, axes = plt.subplots(1, 3, figsize=(18, 5))
CreateFigure2 ==
    /\ Running("figure2")
    /\ figs' = Append(figs, [NewFigure(18, 5) EXCEPT !.axes = <<NewAxes, NewAxes, NewAxes>>])
    /\ Goto("axes0")
    /\ UNCHANGED <<ns, style, stdout, displayed>>
    /\ EnvUnchanged

\* axes[i] of the current figure drawn on
DrawOn(i, arts, ticks, ticklabels) ==
    [figs EXCEPT ![Current].axes[i] = WithArtists(@, arts, ticks, ticklabels)]

\* lines 113-125
DrawAxes0 ==
    /\ Running("axes0")
    /\ figs' = DrawOn(1,
                  <<Bar(<<"Serial">>, <<ns.T_S_ms>>),
                    Bar(ns.threads, ns.T_P_ms),
                    HLine(ns.T_S_ms, "--")>>
                  \o ValueLabels(ns.threads, ns.T_P_ms, 3, "")
                  \o ValueLabels(<<0>>, <<ns.T_S_ms>>, 3, ""),
                  TimeTicks, TimeTickLabels)
    /\ Goto("axes1")
    /\ UNCHANGED <<ns, style, stdout, displayed>>
    /\ EnvUnchanged

\* lines 127-138
DrawAxes1 ==
    /\ Running("axes1")
    /\ figs' = DrawOn(2,
                  <<Plot(ns.threads, ns.speedup, "o-"),
                    Plot(ns.threads, ns.ideal_speedup, "--"),
                    HLine(1, ":")>>
                  \o ValueLabels(ns.threads, ns.speedup, 3, ""),
                  ns.threads, ns.threads)
    /\ Goto("axes2")
    /\ UNCHANGED <<ns, style, stdout, displayed>>
    /\ EnvUnchanged

\* lines 140-152
DrawAxes2 ==
    /\ Running("axes2")
    /\ figs' = DrawOn(3,
                  <<Plot(ns.threads, ns.efficiency_percent, "s-"),
                    HLine(100, "--"),
                    Fill(ns.threads, ns.efficiency_percent)>>
                  \o ValueLabels(ns.threads, ns.efficiency_percent, 2, "%"),
                  ns.threads, ns.threads)
    /\ Goto("save2")
    /\ UNCHANGED <<ns, style, stdout, displayed>>
    /\ EnvUnchanged

\* lines 154-155
Save2 ==
    /\ SaveFig("save2", 2, "print2")
    /\ UNCHANGED <<ns, style, stdout, displayed>>

\* line 156
Print2 == PrintLine("print2", Confirmation("Individual graphs", 2), "figure3")

\* line 159: fig3, ax = plt.subplots(figsize=(12, 8))
CreateFigure3 ==
    /\ Running("figure3")
    /\ figs' = Append(figs, [NewFigure(12, 8) EXCEPT !.axes = <<NewAxes>>])
    /\ Goto("ax")
    /\ UNCHANGED <<ns, style, stdout, displayed>>
    /\ EnvUnchanged

\* line 161: x = np.arange(len(threads))
Arange == [i \in 1..Len(ns.threads) |-> i - 1]

\* The bars of one series of the comparison chart; a bar sits at
\* x[i] - width/2 or x[i] + width/2, kept as the pair of x[i] and the side.
GroupedBars(xs, side, heights) ==
    [kind |-> "bar", x |-> [i \in 1..Len(xs) |-> <<xs[i], side>>], y |-> heights]

\* lines 177-183: the label of every bar is its height to three decimals
BarLabels(bars) ==
    [i \in 1..Len(bars.y) |->
        [kind |-> "text", x |-> bars.x[i], y |-> bars.y[i],
         s |-> <<FormatFixed(bars.y[i], 3), 3, "">>]]

\* lines 161-183: speedup and efficiency side by side
DrawComparison ==
    /\ Running("ax")
    /\ ns' = [n \in DOMAIN ns \cup {"x", "width"} |->
                CASE n = "x" -> Arange
                  [] n = "width" -> Literal(35, 2)
                  [] OTHER -> ns[n]]
    /\ LET bars1 == GroupedBars(Arange, "-width/2", ns.speedup)
           bars2 == GroupedBars(Arange, "+width/2", ns.efficiency)
       IN  figs' = DrawOn(1,
                     <<bars1, bars2, HLine(1, "--")>>
                     \o BarLabels(bars1) \o BarLabels(bars2),
                     Arange, ns.threads)
    /\ Goto("save3")
    /\ UNCHANGED <<style, stdout, displayed>>
    /\ EnvUnchanged

\* lines 185-186
Save3 ==
    /\ SaveFig("save3", 3, "print3")
    /\ UNCHANGED <<ns, style, stdout, displayed>>

\* line 187
Print3 == PrintLine("print3", Confirmation("Comparison chart", 3), "show")

\* ShownFigures had the second figure been closed after its save.
ShownFiguresButSecond == IF interactive THEN 1..Len(figs) \ {2} ELSE {}

\* plt.show(): every open figure gets a window when the backend has
\* windows; a backend without windows shows nothing.
ShownFigures == IF interactive THEN 1..Len(figs) ELSE {}

\* line 189
Show ==
    /\ Running("show")
    /\ displayed' = ShownFigures
    /\ Goto("summary")
    /\ UNCHANGED <<ns, style, figs, stdout>>
    /\ EnvUnchanged

\* lines 191-195, one entry per print call
Summary ==
    <<"\nAll graphs generated successfully!",
      "\nGenerated files:",
      <<"  - ", OutputPath(1), " (4-panel overview)">>,
      <<"  - ", OutputPath(2), " (3 individual charts)">>,
      <<"  - ", OutputPath(3), " (speedup vs efficiency)">> >>

\* lines 191-195, and the normal end of the script
PrintSummary ==
    /\ Running("summary")
    /\ stdout' = stdout \o Summary
    /\ pc' = "exit"
    /\ status' = "ok"
    /\ UNCHANGED <<errLine, ns, style, figs, displayed>>
    /\ EnvUnchanged

\* What a finished run leaves behind for an observer.
Outcome == [status |-> status, stdout |-> stdout, files |-> fs]

\* The script is started again in the same environment: a fresh process
\* (lines 1-15 executed), the same directory, files, styles and backend.
Rerun ==
    /\ pc = "exit"
    /\ Len(runs) + 1 < MaxRuns
    /\ runs' = Append(runs, Outcome)
    /\ t0' = clock
    /\ pc' = "convert"
    /\ status' = "running"
    /\ errLine' = 0
    /\ ns' = Dataset
    /\ style' = <<>>
    /\ figs' = <<>>
    /\ stdout' = <<>>
    /\ displayed' = {}
    /\ UNCHANGED <<dirExists, fs, clock, available, interactive>>

Next ==
    \/ ConvertUnits
    \/ CreateFigure1
    \/ UseStyle
    \/ DrawAx1
    \/ DrawAx2
    \/ DrawAx3
    \/ DrawAx4
    \/ Save1
    \/ Print1
    \/ CreateFigure2
    \/ DrawAxes0
    \/ DrawAxes1
    \/ DrawAxes2
    \/ Save2
    \/ Print2
    \/ CreateFigure3
    \/ DrawComparison
    \/ Save3
    \/ Print3
    \/ Show
    \/ PrintSummary
    \/ Rerun

Spec == Init /\ [][Next]_vars

(***************************************************************************)
(* Vocabulary of the properties.                                           *)
(***************************************************************************)
\* the k-th output file has been written by the process now running
Written(k) == OutputPath(k) \in DOMAIN fs /\ fs[OutputPath(k)].mtime > t0

\* panels of the k-th figure: a 2x2 grid, a row of three, a single chart
PanelCount(k) == CASE k = 1 -> 4 [] k = 2 -> 3 [] k = 3 -> 1

\* the k-th figure exists, every panel of it is drawn, and it is laid out
Built(k) ==
    /\ Len(figs) >= k
    /\ figs[k].tight
    /\ Len(figs[k].axes) = PanelCount(k)
    /\ \A i \in 1..PanelCount(k) : figs[k].axes[i].artists # <<>>

\* panel i of figure k has been drawn
Drawn(k, i) ==
    /\ Len(figs) >= k
    /\ Len(figs[k].axes) >= i
    /\ figs[k].axes[i].artists # <<>>

\* plt.show() has returned
ShowDone == status = "ok" \/ (status = "running" /\ pc = "summary")

ExpectedPaths ==
    <<"docs/performance_graphs.png",
      "docs/performance_graphs_individual.png",
      "docs/performance_graphs_comparison.png">>

ExpectedConfirmations ==
    << <<"Graphs", " saved to ", "docs/performance_graphs.png">>,
       <<"Individual graphs", " saved to ", "docs/performance_graphs_individual.png">>,
       <<"Comparison chart", " saved to ", "docs/performance_graphs_comparison.png">> >>

ExpectedSummary ==
    <<"\nAll graphs generated successfully!",
      "\nGenerated files:",
      <<"  - ", "docs/performance_graphs.png", " (4-panel overview)">>,
      <<"  - ", "docs/performance_graphs_individual.png", " (3 individual charts)">>,
      <<"  - ", "docs/performance_graphs_comparison.png", " (speedup vs efficiency)">> >>

IsPrefix(a, b) == Len(a) <= Len(b) /\ a = SubSeq(b, 1, Len(a))

\* two floats at most one unit in the last place apart
WithinOneUlp(x, y) ==
    /\ x.e = y.e
    /\ \/ x.m = y.m
       \/ Incr(x.m) = y.m
       \/ Incr(y.m) = x.m

(***************************************************************************)
(* C1.  If docs/ is absent the run fails at the first save (line 107): it  *)
(* never gets past that save, never ends normally, none of the three       *)
(* output files ever exists, and no step creates the directory.            *)
(***************************************************************************)
AbsentDirState ==
    ~dirExists =>
        /\ DOMAIN fs = {}
        /\ status # "ok"
        /\ status = "running" =>
              pc \in {"convert", "figure1", "style", "ax1", "ax2", "ax3", "ax4", "save1"}
        /\ status = "error" => errLine = 107 /\ pc = "exit"
        /\ stdout = <<>>

\* C1: with docs/ absent the state is always as above, and no step creates
\* the directory or a file; the step at the first save ends in the error.
C1_AbsentDirFails ==
    /\ []AbsentDirState
    /\ [][~dirExists =>
            /\ ~dirExists'
            /\ DOMAIN fs' = {}
            /\ (status = "running" /\ pc = "save1") =>
                  (status' = "error" /\ errLine' = 107)]_vars

C1_Witness ==
    ~dirExists /\ status = "error" /\ errLine = 107 /\ pc = "exit" /\ DOMAIN fs = {}

(***************************************************************************)
(* C2.  When the save of figure k fails the process ends at that step:     *)
(* the files of steps 1..k-1 are on disk as saved, no file of steps k..3   *)
(* has been written by this run, only the k-1 earlier confirmation lines   *)
(* are on standard output (so no summary), and nothing is displayed.       *)
(***************************************************************************)
C2_AbortKeepsEarlierFiles ==
    \A k \in 1..3 :
        (status = "error" /\ errLine = SaveLine(k)) =>
            /\ pc = "exit"
            /\ \A j \in 1..(k - 1) :
                  Written(j) /\ Built(j) /\ fs[OutputPath(j)].geom = figs[j]
            /\ \A j \in k..3 : ~Written(j)
            /\ stdout = SubSeq(ExpectedConfirmations, 1, k - 1)
            /\ displayed = {}

C2_Witness ==
    /\ status = "error" /\ errLine = 155
    /\ Written(1)
    /\ OutputPath(3) \in DOMAIN fs
    /\ runs # <<>>

(***************************************************************************)
(* C3.  The order of the steps.  As claimed: all derived values are        *)
(* computed before figure 1 is begun.  As the code has it: the millisecond *)
(* times are computed before figure 1 is created, and ideal_speedup,       *)
(* efficiency_percent and degradation_factor are computed while figure 1   *)
(* is being built, each no later than the panel that first plots it.  The  *)
(* rest of the order is as claimed: a figure is saved only when fully      *)
(* built, the next figure is begun only after that save, and the display   *)
(* happens only after all three saves.                                     *)
(***************************************************************************)
DerivedNames ==
    {"T_P_ms", "T_S_ms", "ideal_speedup", "efficiency_percent", "degradation_factor"}

BuildSaveOrder ==
    /\ \A k \in 1..3 :
          Written(k) => Built(k) /\ fs[OutputPath(k)].geom = figs[k]
    /\ \A k \in 1..2 : Len(figs) >= k + 1 => Written(k)
    /\ Len(figs) <= 3
    /\ ShowDone => \A k \in 1..3 : Written(k)
    /\ displayed # {} => ShowDone

\* C3 as claimed: every derived value is bound before figure 1 exists.
C3_Original ==
    /\ Len(figs) >= 1 => DerivedNames \subseteq DOMAIN ns
    /\ BuildSaveOrder

\* C3 as amended: the millisecond times before figure 1, each other derived
\* value exactly by the panel that first plots it, then build, save, display.
C3_StepOrder ==
    /\ Len(figs) >= 1 => {"T_P_ms", "T_S_ms"} \subseteq DOMAIN ns
    /\ Drawn(1, 2) => Bound("ideal_speedup")
    /\ Drawn(1, 3) => Bound("efficiency_percent")
    /\ Drawn(1, 4) => Bound("degradation_factor")
    /\ (Len(figs) >= 1 /\ ~Drawn(1, 2)) => ~Bound("ideal_speedup")
    /\ ~Drawn(1, 3) => ~Bound("efficiency_percent")
    /\ ~Drawn(1, 4) => ~Bound("degradation_factor")
    /\ BuildSaveOrder

C3_Witness ==
    /\ ShowDone
    /\ \A k \in 1..3 : Written(k) /\ Built(k)
    /\ DerivedNames \subseteq DOMAIN ns

(***************************************************************************)
(* C4.  What plt.show() displays.  As claimed: exactly figures 1 and 3.    *)
(* As the code has it: every open figure, and none was closed, so figures  *)
(* 1, 2 and 3 when the backend has windows and nothing when it has none;   *)
(* before the display step nothing is displayed.                           *)
(***************************************************************************)
\* C4 as claimed: the figures displayed are the first and the third.
C4_Original == ShowDone => displayed = {1, 3}

\* C4 as amended: all three figures are displayed (none without windows).
C4_ShowsAllOpenFigures ==
    /\ ShowDone => displayed = (IF interactive THEN {1, 2, 3} ELSE {})
    /\ ~ShowDone => displayed = {}
    /\ ShowDone => Written(2)

C4_Witness == ShowDone /\ interactive /\ 2 \in displayed

(***************************************************************************)
(* C5.  Standard output is always a prefix of: the three confirmation      *)
(* lines, each naming its file, then the summary naming all three files.   *)
(* Line k is there only once file k is written, and is there before figure *)
(* k+1 is begun; the summary is there only once the display step is over,  *)
(* and a run that ends normally has printed exactly all of it.             *)
(***************************************************************************)
C5_StdoutOrder ==
    /\ IsPrefix(stdout, ExpectedConfirmations \o ExpectedSummary)
    /\ \A k \in 1..3 : Len(stdout) >= k => Written(k)
    /\ \A k \in 1..2 : Len(figs) >= k + 1 => Len(stdout) >= k
    /\ ShowDone => Len(stdout) >= 3
    /\ Len(stdout) > 3 => status = "ok"
    /\ status = "ok" => stdout = ExpectedConfirmations \o ExpectedSummary

C5_Witness ==
    /\ status = "ok"
    /\ Len(stdout) = 8
    /\ \A k \in 1..3 : stdout[k][3] = ExpectedPaths[k]

(***************************************************************************)
(* C6.  Style selection never raises (no run ends at line 25).  It is made *)
(* at most once per run, and exactly once by the time the first panel is   *)
(* drawn; the style selected is the preferred one when the library has it  *)
(* and "default" otherwise; every panel is drawn under it; and a run that  *)
(* ends normally has saved all three files whichever style was selected.   *)
(***************************************************************************)
C6_StyleFallback ==
    /\ errLine # 25
    /\ Len(style) <= 1
    /\ (Len(figs) >= 1 /\ ~(status = "running" /\ pc = "style")) => Len(style) = 1
    /\ style # <<>> =>
          style[1] = (IF "seaborn-v0_8-darkgrid" \in available
                      THEN "seaborn-v0_8-darkgrid" ELSE "default")
    /\ \A k \in 1..Len(figs) : \A i \in 1..Len(figs[k].axes) :
          figs[k].axes[i].style = style
    /\ status = "ok" => \A k \in 1..3 : Written(k)

C6_Witness ==
    /\ status = "ok"
    /\ "seaborn-v0_8-darkgrid" \notin available
    /\ style = <<"default">>
    /\ \A k \in 1..3 : Written(k)

(***************************************************************************)
(* C7.  Two runs in succession in one environment, both ending normally:   *)
(* after the second, docs/ holds exactly the three output paths, the same  *)
(* as after the first; each file has been written again with the same      *)
(* plotted geometry; and both runs printed the same lines.                 *)
(***************************************************************************)
C7_RerunIdempotent ==
    (status = "ok" /\ runs # <<>> /\ runs[Len(runs)].status = "ok") =>
        LET prev == runs[Len(runs)] IN
        /\ DOMAIN fs = DOMAIN prev.files
        /\ DOMAIN fs = {ExpectedPaths[k] : k \in 1..3}
        /\ \A p \in DOMAIN fs :
              /\ fs[p].geom = prev.files[p].geom
              /\ fs[p].mtime > prev.files[p].mtime
        /\ stdout = prev.stdout

C7_Witness ==
    /\ status = "ok"
    /\ runs # <<>>
    /\ runs[Len(runs)].status = "ok"
    /\ \A k \in 1..3 : Written(k)

(***************************************************************************)
(* C8.  The dataset never changes: threads, T_P, speedup, efficiency and   *)
(* T_S hold the values of their literals in every state, the four series   *)
(* have length 4, and so position i of each belongs to threads[i].         *)
(***************************************************************************)
C8_DatasetImmutable ==
    /\ ns.threads = <<2, 4, 8, 16>>
    /\ ns.T_P = <<Literal(3119, 6), Literal(4229, 6), Literal(8202, 6), Literal(9997, 6)>>
    /\ ns.speedup = <<Literal(1829, 4), Literal(1349, 4), Literal(696, 4), Literal(571, 4)>>
    /\ ns.efficiency = <<Literal(915, 4), Literal(337, 4), Literal(87, 4), Literal(36, 4)>>
    /\ ns.T_S = Literal(571, 6)
    /\ \A n \in {"threads", "T_P", "speedup", "efficiency"} : Len(ns[n]) = 4

C8_Witness ==
    /\ status = "ok"
    /\ ns.threads = <<2, 4, 8, 16>>
    /\ Len(figs) = 3
    /\ Len(stdout) = 8

(***************************************************************************)
(* C9.  Once defined, ideal_speedup is the thread-count sequence,          *)
(* [2, 4, 8, 16], and that is the series plotted against threads as the    *)
(* ideal line in the speedup panel of the overview and in the speedup      *)
(* panel of the individual charts.                                         *)
(***************************************************************************)
C9_IdealSpeedup ==
    /\ Bound("ideal_speedup") =>
          ns.ideal_speedup = <<2, 4, 8, 16>> /\ ns.ideal_speedup = ns.threads
    /\ Drawn(1, 2) =>
          /\ Bound("ideal_speedup")
          /\ figs[1].axes[2].artists[3] = [kind |-> "plot", x |-> <<2, 4, 8, 16>>,
                                           y |-> <<2, 4, 8, 16>>, fmt |-> "--"]
    /\ Drawn(2, 2) =>
          figs[2].axes[2].artists[2] = [kind |-> "plot", x |-> <<2, 4, 8, 16>>,
                                        y |-> <<2, 4, 8, 16>>, fmt |-> "--"]

C9_Witness == Drawn(1, 2) /\ Drawn(2, 2) /\ Bound("ideal_speedup")

(***************************************************************************)
(* C10.  Unit conversion.  As claimed: every converted value is the        *)
(* decimal product, so 0.003119 gives the float 3.119.  As the code has    *)
(* it: every converted value is the float product, rounded once; the       *)
(* series keep their length and order; each value is within one unit in    *)
(* the last place of the float of the decimal product and prints as the    *)
(* decimal product at the precision of the labels (three decimals for      *)
(* milliseconds, two for percent); it is that float itself except for      *)
(* T_P_ms[0] (3.1189999999999998, not 3.119) and efficiency_percent[2]     *)
(* (0.8699999999999999, not 0.87).  0.0915 does give 9.15.                 *)
(***************************************************************************)
ExactMs == <<Literal(3119, 3), Literal(4229, 3), Literal(8202, 3), Literal(9997, 3)>>
ExactSerialMs == Literal(571, 3)
ExactPercent == <<Literal(915, 2), Literal(337, 2), Literal(87, 2), Literal(36, 2)>>

\* C10 as claimed: each converted value is the float of the decimal product.
C10_Original ==
    /\ Bound("T_P_ms") =>
          /\ Len(ns.T_P_ms) = 4
          /\ \A i \in 1..4 : ns.T_P_ms[i] = ExactMs[i]
          /\ ns.T_S_ms = ExactSerialMs
    /\ Bound("efficiency_percent") =>
          /\ Len(ns.efficiency_percent) = 4
          /\ \A i \in 1..4 : ns.efficiency_percent[i] = ExactPercent[i]

\* C10 as amended: each converted value is within one unit in the last place
\* of it, prints as it, and is it except for T_P_ms[0], efficiency_percent[2].
C10_UnitConversion ==
    /\ Bound("T_P_ms") =>
          /\ Bound("T_S_ms")
          /\ Len(ns.T_P_ms) = 4
          /\ \A i \in 1..4 :
                /\ WithinOneUlp(ns.T_P_ms[i], ExactMs[i])
                /\ FormatFixed(ns.T_P_ms[i], 3) = <<3119, 4229, 8202, 9997>>[i]
                /\ ns.T_P_ms[i] = ExactMs[i] <=> i # 1
          /\ ns.T_S_ms = ExactSerialMs
          /\ FormatFixed(ns.T_S_ms, 3) = 571
    /\ Bound("efficiency_percent") =>
          /\ Len(ns.efficiency_percent) = 4
          /\ \A i \in 1..4 :
                /\ WithinOneUlp(ns.efficiency_percent[i], ExactPercent[i])
                /\ FormatFixed(ns.efficiency_percent[i], 2) = <<915, 337, 87, 36>>[i]
                /\ ns.efficiency_percent[i] = ExactPercent[i] <=> i # 3

C10_Witness ==
    /\ Bound("T_P_ms")
    /\ Bound("efficiency_percent")
    /\ FormatFixed(ns.T_P_ms[1], 3) = 3119
    /\ ns.efficiency_percent[1] = Literal(915, 2)
====
